---- MODULE Spec2Model ----
(***************************************************************************)
(* Model of the acg_image_search plugin (src/__init__.py): the tag         *)
(* normalisation, the tag relaxation (adjust_tags), the search query       *)
(* (fetch_image_data), the content retrieval (download_image) and the      *)
(* retry loop of acg_image_search.                                         *)
(*                                                                         *)
(* Strings are sequences of one-character strings.  A bytes value is a     *)
(* record [type, id, len]: id names the content and len is its length in   *)
(* bytes.  One action is the code that runs between two suspension points  *)
(* of the coroutine (the two awaits of lines 159 and 166).                 *)
(***************************************************************************)
EXTENDS Integers, Sequences, FiniteSets, Bags, TLC

VARIABLES
    MAX_RETRIES,    \* config.MAX_RETRIES, read only
    tags,           \* the caller's argument
    pc,             \* position of the coroutine
    clean_tags,     \* line 152
    last_error,     \* line 153
    attempt,        \* loop variable of line 155
    current_tags,   \* line 156
    image_url,      \* line 159
    result,         \* the value returned to the caller
    raised,         \* the exception that left the function, if any
    requests,       \* history: tag lists of the search requests issued (line 73)
    downloads,      \* history: locators of the retrievals issued (line 97)
    response,       \* history: the last answer received from the network
    logs,           \* history: bag of the log entries emitted
    outcomes,       \* history: bag of the outcomes of the finished attempts
    last_outcome,   \* history: outcome of the last finished attempt
    frames,         \* concurrent calls: the local variables of each call frame
    calls           \* concurrent calls: position, input and history of each call

vars == <<MAX_RETRIES, tags, pc, clean_tags, last_error, attempt, current_tags,
          image_url, result, raised, requests, downloads, response, logs,
          outcomes, last_outcome, frames, calls>>

\* the variables of the specification of concurrent calls
concVars == <<frames, calls>>

-----------------------------------------------------------------------------
(* Bounds and program constants *)

\* largest configured retry count explored
MaxRetriesBound == 3

\* AcgImageConfig.MAX_TAGS default
MAX_TAGS == 3

\* download_image: smallest content length accepted
MIN_IMAGE_SIZE == 1024

\* longest caller tag list explored: one more than MAX_TAGS
MaxInputLen == MAX_TAGS + 1

Whitespace == {" "}

\* caller tags: blank, padded, plain
TagUniverse == { <<" ">>, <<" ", "a", " ">>, <<"b">> }

RECURSIVE SeqsUpTo(_, _)
SeqsUpTo(S, n) ==
    IF n = 0 THEN { <<>> }
    ELSE LET shorter == SeqsUpTo(S, n - 1)
         IN  shorter \cup { Append(s, x) : s \in { t \in shorter : Len(t) = n - 1 }, x \in S }

TagLists == SeqsUpTo(TagUniverse, MaxInputLen)

Max(a, b) == IF a >= b THEN a ELSE b
Min(a, b) == IF a <= b THEN a ELSE b

-----------------------------------------------------------------------------
(* Values *)

NoneValue == [type |-> "NoneType", id |-> <<>>, len |-> 0]
Unset     == [type |-> "unset", id |-> <<>>, len |-> 0]
Bytes(id, len) == [type |-> "bytes", id |-> id, len |-> len]

Str(s) == [type |-> "str", id |-> s, len |-> Len(s)]

\* truthiness of a str / bytes / None value
Truthy(v) == v.type \in {"str", "bytes"} /\ v.len > 0

HttpUrl     == <<"h", "t", "t", "p", "s", ":", "/", "/", "i">>
InlineToken == <<"d", "a", "t", "a">>

\* the prefix tested by line 166
HttpPrefix == <<"h", "t", "t", "p">>

\* values the provider can put in data[0]["urls"]["original"]
Locators == { <<>>, HttpUrl, InlineToken }

\* contents a retrieval can answer with
Contents == { Bytes(<<>>, 0), Bytes(<<"s">>, MIN_IMAGE_SIZE - 1),
              Bytes(<<"p">>, MIN_IMAGE_SIZE), Bytes(<<"q">>, MIN_IMAGE_SIZE + 1) }

\* variant: the prefix is not compared
startswith_unchecked(v, prefix) == Len(v.id) >= 0 /\ Len(prefix) >= 0

\* str.startswith
startswith(v, prefix) ==
    Len(v.id) >= Len(prefix) /\ SubSeq(v.id, 1, Len(prefix)) = prefix

\* str.encode of an ASCII string
encode(v) == Bytes(v.id, v.len)

-----------------------------------------------------------------------------
(* Tag normalisation and relaxation *)

RECURSIVE lstrip(_)
lstrip(s) ==
    IF s = <<>> THEN <<>>
    ELSE IF Head(s) \in Whitespace THEN lstrip(Tail(s)) ELSE s

RECURSIVE rstrip(_)
rstrip(s) ==
    IF s = <<>> THEN <<>>
    ELSE IF s[Len(s)] \in Whitespace THEN rstrip(SubSeq(s, 1, Len(s) - 1)) ELSE s

\* variant: only the leading whitespace is removed
strip_leading_only(s) == lstrip(s)

\* str.strip
strip(s) == rstrip(lstrip(s))

\* [t.strip() for t in tags if t.strip()]
RECURSIVE CleanTags(_)
CleanTags(ts) ==
    IF ts = <<>> THEN <<>>
    ELSE IF strip(Head(ts)) # <<>>
         THEN <<strip(Head(ts))>> \o CleanTags(Tail(ts))
         ELSE CleanTags(Tail(ts))

\* tags[:n] for n >= 0
Prefix(ts, n) == SubSeq(ts, 1, Min(n, Len(ts)))

\* tags[:n] for any integer n
Slice(ts, n) == IF n >= 0 THEN Prefix(ts, n) ELSE Prefix(ts, Max(0, Len(ts) + n))

\* variant: the slice bound is not kept at 1 or more
adjust_tags_no_floor(ts, k) ==
    IF Len(ts) <= 1 THEN ts
    ELSE Slice(ts, Len(ts) - k)

adjust_tags(ts, k) ==
    IF Len(ts) <= 1 THEN ts
    ELSE Prefix(ts, Max(1, Len(ts) - k))

\* variant: the count is checked after the blank tags are dropped
Validate_after_cleaning(ts) ==
    IF ts = <<>> THEN "need_at_least_one_tag"
    ELSE IF Len(CleanTags(ts)) > MAX_TAGS THEN "too_many_tags"
    ELSE ""

\* the argument checks of lines 147-150: the message of the ValueError, or ""
Validate(ts) ==
    IF ts = <<>> THEN "need_at_least_one_tag"
    ELSE IF Len(ts) > MAX_TAGS THEN "too_many_tags"
    ELSE ""

-----------------------------------------------------------------------------
(* The provider's answers *)

Response(transport, status, body, original) ==
    [transport |-> transport, status |-> status, body |-> body, original |-> original,
     content |-> Bytes(<<>>, 0)]

Content(transport, status, content) ==
    [transport |-> transport, status |-> status, body |-> "", original |-> <<>>,
     content |-> content]

NoResponse == Response("", 0, "", <<>>)

\* answers to the POST of fetch_image_data: a transport failure, a status,
\* and the shape of the JSON body
QueryResponses ==
    { Response("ConnectError", 0, "", <<>>),
      Response("ReadTimeout", 0, "", <<>>),
      Response("ok", 500, "", <<>>),
      Response("ok", 200, "not_json", <<>>),
      Response("ok", 200, "no_data_key", <<>>),
      Response("ok", 200, "empty_data", <<>>),
      Response("ok", 200, "item_without_urls", <<>>) }
    \cup { Response("ok", 200, "item", u) : u \in Locators }

\* answers to the GET of download_image
DownloadResponses ==
    { Content("ConnectError", 0, Bytes(<<>>, 0)),
      Content("ReadTimeout", 0, Bytes(<<>>, 0)),
      Content("ok", 404, Bytes(<<>>, 0)) }
    \cup { Content("ok", 200, c) : c \in Contents }

\* response.raise_for_status()
raise_for_status(resp) == resp.status >= 400

Returns(v) == [exc |-> "", value |-> v]
Raises(e)  == [exc |-> e, value |-> NoneValue]

\* fetch_image_data on the answer resp: the value returned or the exception raised
fetch_image_data(resp) ==
    IF resp.transport # "ok" THEN Raises(resp.transport)
    ELSE IF raise_for_status(resp) THEN Raises("HTTPStatusError")
    ELSE IF resp.body = "not_json" THEN Raises("JSONDecodeError")
    ELSE IF resp.body \in {"no_data_key", "empty_data"} THEN Returns(NoneValue)
    ELSE IF resp.body = "item_without_urls" THEN Raises("KeyError")
    ELSE Returns(Str(resp.original))

\* variant: the content is only checked for emptiness
download_image_no_size_check(resp) ==
    IF resp.transport # "ok" THEN Raises(resp.transport)
    ELSE IF raise_for_status(resp) THEN Raises("HTTPStatusError")
    ELSE IF ~Truthy(resp.content) THEN Returns(NoneValue)
    ELSE Returns(resp.content)

\* download_image on the answer resp
download_image(resp) ==
    IF resp.transport # "ok" THEN Raises(resp.transport)
    ELSE IF raise_for_status(resp) THEN Raises("HTTPStatusError")
    ELSE IF ~Truthy(resp.content) \/ resp.content.len < MIN_IMAGE_SIZE
         THEN Returns(NoneValue)
    ELSE Returns(resp.content)

\* subclasses of httpx.RequestError among the exceptions raised
RequestErrors == {"ConnectError", "ReadTimeout"}

\* variant: no except clause for KeyError
Handler_without_key_error(e) ==
    IF e \in RequestErrors THEN "request_failed"
    ELSE IF e = "HTTPStatusError" THEN "http_error"
    ELSE "unknown_error"

\* the except clause of lines 174-184 that catches exception e
Handler(e) ==
    IF e \in RequestErrors THEN "request_failed"
    ELSE IF e = "HTTPStatusError" THEN "http_error"
    ELSE IF e = "KeyError" THEN "parse_error"
    ELSE "unknown_error"

\* the log entries an except clause emits
HandlerLogs(h) ==
    IF h = "unknown_error" THEN EmptyBag
    ELSE SetToBag({ [level |-> "error", event |-> h] })

-----------------------------------------------------------------------------
(* The coroutine acg_image_search *)

Init ==
    /\ MAX_RETRIES \in 0..MaxRetriesBound
    /\ tags \in TagLists
    /\ pc = "start"
    /\ clean_tags = <<>>
    /\ last_error = ""
    /\ attempt = 0
    /\ current_tags = <<>>
    /\ image_url = Unset
    /\ result = Unset
    /\ raised = ""
    /\ requests = <<>>
    /\ downloads = <<>>
    /\ response = NoResponse
    /\ logs = EmptyBag
    /\ outcomes = EmptyBag
    /\ last_outcome = ""
    /\ frames = <<>>
    /\ calls = <<>>

\* lines 147-150: the call is rejected with a ValueError
RejectCall ==
    /\ pc = "start"
    /\ Validate(tags) # ""
    /\ pc' = "raised"
    /\ raised' = "ValueError"
    /\ UNCHANGED <<MAX_RETRIES, tags, clean_tags, last_error, attempt, current_tags,
                   image_url, result, requests, downloads, response, logs,
                   outcomes, last_outcome>>
    /\ UNCHANGED concVars

\* lines 152-159: the tags are cleaned and the first search request is issued
StartCall ==
    /\ pc = "start"
    /\ Validate(tags) = ""
    /\ clean_tags' = CleanTags(tags)
    /\ last_error' = ""
    /\ attempt' = 0
    /\ current_tags' = adjust_tags(clean_tags', 0)
    /\ requests' = Append(requests, current_tags')
    /\ pc' = "query"
    /\ UNCHANGED <<MAX_RETRIES, tags, image_url, result, raised, downloads, response,
                   logs, outcomes, last_outcome>>
    /\ UNCHANGED concVars

\* variant: the loop runs over range(MAX_RETRIES)
NextAttempt_one_short ==
    IF attempt + 1 < MAX_RETRIES
    THEN /\ attempt' = attempt + 1
         /\ current_tags' = adjust_tags(clean_tags, attempt + 1)
         /\ requests' = Append(requests, current_tags')
         /\ pc' = "query"
         /\ UNCHANGED result
    ELSE /\ pc' = "exhausted"
         /\ result' = NoneValue
         /\ UNCHANGED <<attempt, current_tags, requests>>

\* variant: the tags are relaxed with the index of the attempt that just ended
NextAttempt_stale_index ==
    IF attempt + 1 <= MAX_RETRIES
    THEN /\ attempt' = attempt + 1
         /\ current_tags' = adjust_tags(clean_tags, attempt)
         /\ requests' = Append(requests, current_tags')
         /\ pc' = "query"
         /\ UNCHANGED result
    ELSE /\ pc' = "exhausted"
         /\ result' = NoneValue
         /\ UNCHANGED <<attempt, current_tags, requests>>

\* variant: the loop runs over range(MAX_RETRIES + 2)
NextAttempt_one_more ==
    IF attempt + 1 <= MAX_RETRIES + 1
    THEN /\ attempt' = attempt + 1
         /\ current_tags' = adjust_tags(clean_tags, attempt + 1)
         /\ requests' = Append(requests, current_tags')
         /\ pc' = "query"
         /\ UNCHANGED result
    ELSE /\ pc' = "exhausted"
         /\ result' = NoneValue
         /\ UNCHANGED <<attempt, current_tags, requests>>

\* line 155: the loop takes its next value and issues the search request of
\* lines 156-159, or ends and the function returns without a return statement
NextAttempt ==
    IF attempt + 1 <= MAX_RETRIES
    THEN /\ attempt' = attempt + 1
         /\ current_tags' = adjust_tags(clean_tags, attempt + 1)
         /\ requests' = Append(requests, current_tags')
         /\ pc' = "query"
         /\ UNCHANGED result
    ELSE /\ pc' = "exhausted"
         /\ result' = NoneValue
         /\ UNCHANGED <<attempt, current_tags, requests>>

\* an attempt ends with outcome o
Record(o) ==
    /\ outcomes' = outcomes (+) SetToBag({o})
    /\ last_outcome' = o

\* variant: the except clause leaves the loop
Catch_and_stop(e) ==
    /\ last_error' = Handler(e)
    /\ logs' = logs (+) HandlerLogs(Handler(e))
    /\ outcomes' = outcomes (+) SetToBag({"Fault"})
    /\ last_outcome' = "Fault"
    /\ pc' = "exhausted"
    /\ result' = NoneValue
    /\ UNCHANGED <<attempt, current_tags, requests>>

\* variant: no except clause for the exceptions of no listed class, which
\* then leave the function
Catch_listed_only(e) ==
    IF Handler(e) = "unknown_error"
    THEN /\ pc' = "raised"
         /\ UNCHANGED <<last_error, logs, outcomes, last_outcome, attempt,
                        current_tags, requests, result>>
    ELSE /\ last_error' = Handler(e)
         /\ logs' = logs (+) HandlerLogs(Handler(e))
         /\ outcomes' = outcomes (+) SetToBag({"Fault"})
         /\ last_outcome' = "Fault"
         /\ NextAttempt

\* lines 174-184: exception e is caught, then the loop goes on
Catch(e) ==
    /\ last_error' = Handler(e)
    /\ logs' = logs (+) HandlerLogs(Handler(e))
    /\ Record("Fault")
    /\ NextAttempt

\* line 159 raises
QueryRaises ==
    /\ pc = "query"
    /\ \E resp \in QueryResponses :
          /\ response' = resp
          /\ fetch_image_data(resp).exc # ""
          /\ Catch(fetch_image_data(resp).exc)
    /\ UNCHANGED <<MAX_RETRIES, tags, clean_tags, image_url, raised, downloads>>
    /\ UNCHANGED concVars

\* variant: the empty result is stored as the last error
QueryNoMatch_stores_reason ==
    /\ pc = "query"
    /\ \E resp \in QueryResponses :
          /\ response' = resp
          /\ fetch_image_data(resp).exc = ""
          /\ image_url' = fetch_image_data(resp).value
          /\ ~Truthy(image_url')
    /\ last_error' = "no_match"
    /\ logs' = logs (+) SetToBag({ [level |-> "info", event |-> "no_match"] })
    /\ outcomes' = outcomes (+) SetToBag({"NoMatch"})
    /\ last_outcome' = "NoMatch"
    /\ NextAttempt
    /\ UNCHANGED <<MAX_RETRIES, tags, clean_tags, raised, downloads>>
    /\ UNCHANGED concVars

\* lines 159-163: no locator
QueryNoMatch ==
    /\ pc = "query"
    /\ \E resp \in QueryResponses :
          /\ response' = resp
          /\ fetch_image_data(resp).exc = ""
          /\ image_url' = fetch_image_data(resp).value
          /\ ~Truthy(image_url')
    /\ logs' = logs (+) SetToBag({ [level |-> "info", event |-> "no_match"] })
    /\ Record("NoMatch")
    /\ NextAttempt
    /\ UNCHANGED <<MAX_RETRIES, tags, clean_tags, last_error, raised, downloads>>
    /\ UNCHANGED concVars

\* lines 159-166: a locator that starts with "http": the retrieval is issued
QueryLocator ==
    /\ pc = "query"
    /\ \E resp \in QueryResponses :
          /\ response' = resp
          /\ fetch_image_data(resp).exc = ""
          /\ image_url' = fetch_image_data(resp).value
          /\ Truthy(image_url')
          /\ startswith(image_url', HttpPrefix)
    /\ downloads' = Append(downloads, image_url'.id)
    /\ pc' = "download"
    /\ UNCHANGED <<MAX_RETRIES, tags, clean_tags, last_error, attempt, current_tags,
                   result, raised, requests, logs, outcomes, last_outcome>>
    /\ UNCHANGED concVars

\* lines 159-172: any other locator is encoded and returned
QueryInline ==
    /\ pc = "query"
    /\ \E resp \in QueryResponses :
          /\ response' = resp
          /\ fetch_image_data(resp).exc = ""
          /\ image_url' = fetch_image_data(resp).value
          /\ Truthy(image_url')
          /\ ~startswith(image_url', HttpPrefix)
    /\ Truthy(encode(image_url'))
    /\ result' = encode(image_url')
    /\ pc' = "returned"
    /\ Record("Success")
    /\ UNCHANGED <<MAX_RETRIES, tags, clean_tags, last_error, attempt, current_tags,
                   raised, requests, downloads, logs>>
    /\ UNCHANGED concVars

\* line 166 raises
DownloadRaises ==
    /\ pc = "download"
    /\ \E resp \in DownloadResponses :
          /\ response' = resp
          /\ download_image(resp).exc # ""
          /\ Catch(download_image(resp).exc)
    /\ UNCHANGED <<MAX_RETRIES, tags, clean_tags, image_url, raised, downloads>>
    /\ UNCHANGED concVars

\* lines 166-170: the retrieval gave no usable content
DownloadInvalid ==
    /\ pc = "download"
    /\ \E resp \in DownloadResponses :
          /\ response' = resp
          /\ download_image(resp).exc = ""
          /\ ~Truthy(download_image(resp).value)
    /\ logs' = logs (+) SetToBag({ [level |-> "info", event |-> "empty_download"] })
    /\ Record("InvalidPayload")
    /\ NextAttempt
    /\ UNCHANGED <<MAX_RETRIES, tags, clean_tags, last_error, image_url, raised, downloads>>
    /\ UNCHANGED concVars

\* variant: the retrieved content is kept but the loop goes on
DownloadValid_no_return ==
    /\ pc = "download"
    /\ \E resp \in DownloadResponses :
          /\ response' = resp
          /\ download_image(resp).exc = ""
          /\ Truthy(download_image(resp).value)
    /\ outcomes' = outcomes (+) SetToBag({"Success"})
    /\ last_outcome' = "Success"
    /\ NextAttempt
    /\ UNCHANGED <<MAX_RETRIES, tags, clean_tags, last_error, image_url, raised,
                   downloads, logs>>
    /\ UNCHANGED concVars

\* lines 166-172: the retrieved content is returned
DownloadValid ==
    /\ pc = "download"
    /\ \E resp \in DownloadResponses :
          /\ response' = resp
          /\ download_image(resp).exc = ""
          /\ Truthy(download_image(resp).value)
          /\ result' = download_image(resp).value
    /\ pc' = "returned"
    /\ Record("Success")
    /\ UNCHANGED <<MAX_RETRIES, tags, clean_tags, last_error, attempt, current_tags,
                   image_url, raised, requests, downloads, logs>>
    /\ UNCHANGED concVars

Next ==
    \/ RejectCall
    \/ StartCall
    \/ QueryRaises
    \/ QueryNoMatch
    \/ QueryLocator
    \/ QueryInline
    \/ DownloadRaises
    \/ DownloadInvalid
    \/ DownloadValid

Spec == Init /\ [][Next]_vars

\* the awaited network calls return or fail, and the event loop resumes the coroutine
FairSpec == Spec /\ WF_vars(Next)

-----------------------------------------------------------------------------
(* Concurrent calls of acg_image_search on one event loop.  A call keeps its *)
(* position itself; its local variables live in the frame Frame(p).  The     *)
(* configuration MAX_RETRIES is the one module-level value the calls share.  *)

\* largest configured retry count explored with concurrent calls
ConcRetriesBound == 1

Invocations == {1, 2}

\* variant: the local variables are module-level variables
Frame_shared(p) == Min(p, 1)

\* the frame that holds the local variables of call p: one per call
Frame(p) == p

\* the local variables of lines 152-166
InitialLocals ==
    [clean_tags |-> <<>>, last_error |-> "", attempt |-> 0,
     current_tags |-> <<>>, image_url |-> Unset]

\* what a stretch of the coroutine does: the new position and locals, the
\* value returned or exception raised, the search requests and retrievals sent
Effect(p, l, res, exc, sent, fetched) ==
    [pc |-> p, locals |-> l, result |-> res, raised |-> exc,
     sent |-> sent, fetched |-> fetched]

\* lines 147-159 on the locals l and the argument ts
Begin(l, ts) ==
    IF Validate(ts) # ""
    THEN Effect("raised", l, Unset, "ValueError", <<>>, <<>>)
    ELSE LET c == CleanTags(ts)
         IN  Effect("query",
                    [l EXCEPT !.clean_tags = c, !.last_error = "", !.attempt = 0,
                              !.current_tags = adjust_tags(c, 0)],
                    Unset, "", <<adjust_tags(c, 0)>>, <<>>)

\* line 155 on the locals l: the next iteration, or the end of the loop
Advance(l) ==
    IF l.attempt + 1 <= MAX_RETRIES
    THEN LET t == adjust_tags(l.clean_tags, l.attempt + 1)
         IN  Effect("query", [l EXCEPT !.attempt = l.attempt + 1, !.current_tags = t],
                    Unset, "", <<t>>, <<>>)
    ELSE Effect("exhausted", l, NoneValue, "", <<>>, <<>>)

\* lines 159-184 on the locals l when the search answers resp
AfterQuery(l, resp) ==
    LET r == fetch_image_data(resp)
        l2 == [l EXCEPT !.image_url = r.value]
    IN  IF r.exc # "" THEN Advance([l EXCEPT !.last_error = Handler(r.exc)])
        ELSE IF ~Truthy(r.value) THEN Advance(l2)
        ELSE IF startswith(r.value, HttpPrefix)
             THEN Effect("download", l2, Unset, "", <<>>, <<r.value.id>>)
        ELSE Effect("returned", l2, encode(r.value), "", <<>>, <<>>)

\* lines 166-184 on the locals l when the retrieval answers resp
AfterDownload(l, resp) ==
    LET r == download_image(resp)
    IN  IF r.exc # "" THEN Advance([l EXCEPT !.last_error = Handler(r.exc)])
        ELSE IF ~Truthy(r.value) THEN Advance(l)
        ELSE Effect("returned", l, r.value, "", <<>>, <<>>)

\* arguments and answers explored with concurrent calls
ConcTagLists == { << <<" ", "a", " ">>, <<"b">> >>, << <<"b">> >> }

ConcQueryResponses ==
    { Response("ReadTimeout", 0, "", <<>>),
      Response("ok", 200, "empty_data", <<>>),
      Response("ok", 200, "item", HttpUrl),
      Response("ok", 200, "item", InlineToken) }

ConcDownloadResponses ==
    { Content("ok", 200, Bytes(<<"s">>, MIN_IMAGE_SIZE - 1)),
      Content("ok", 200, Bytes(<<"p">>, MIN_IMAGE_SIZE)) }

InitConc ==
    /\ MAX_RETRIES \in 0..ConcRetriesBound
    /\ frames = [f \in Invocations |-> InitialLocals]
    /\ calls \in [Invocations ->
                    { [pc |-> "start", tags |-> ts, result |-> Unset, raised |-> "",
                       requests |-> <<>>, downloads |-> <<>>, received |-> <<>>]
                      : ts \in ConcTagLists }]
    /\ tags = <<>>
    /\ pc = "start"
    /\ clean_tags = <<>>
    /\ last_error = ""
    /\ attempt = 0
    /\ current_tags = <<>>
    /\ image_url = Unset
    /\ result = Unset
    /\ raised = ""
    /\ requests = <<>>
    /\ downloads = <<>>
    /\ response = NoResponse
    /\ logs = EmptyBag
    /\ outcomes = EmptyBag
    /\ last_outcome = ""

\* call p runs to its next suspension point with effect eff, after answer ans
Resume(p, eff, ans) ==
    /\ frames' = [frames EXCEPT ![Frame(p)] = eff.locals]
    /\ calls' = [calls EXCEPT ![p] =
                    [pc |-> eff.pc, tags |-> calls[p].tags,
                     result |-> eff.result, raised |-> eff.raised,
                     requests |-> calls[p].requests \o eff.sent,
                     downloads |-> calls[p].downloads \o eff.fetched,
                     received |-> calls[p].received \o ans]]
    /\ UNCHANGED <<MAX_RETRIES, tags, pc, clean_tags, last_error, attempt,
                   current_tags, image_url, result, raised, requests, downloads,
                   response, logs, outcomes, last_outcome>>

\* call p is started and runs to its first await
ConcStart(p) ==
    /\ calls[p].pc = "start"
    /\ Resume(p, Begin(frames[Frame(p)], calls[p].tags), <<>>)

\* call p is resumed with the answer of its search request
ConcQuery(p) ==
    /\ calls[p].pc = "query"
    /\ \E resp \in ConcQueryResponses :
          Resume(p, AfterQuery(frames[Frame(p)], resp), <<resp>>)

\* call p is resumed with the answer of its retrieval
ConcDownload(p) ==
    /\ calls[p].pc = "download"
    /\ \E resp \in ConcDownloadResponses :
          Resume(p, AfterDownload(frames[Frame(p)], resp), <<resp>>)

NextConc ==
    \/ \E p \in Invocations : ConcStart(p)
    \/ \E p \in Invocations : ConcQuery(p)
    \/ \E p \in Invocations : ConcDownload(p)

SpecConc == InitConc /\ [][NextConc]_vars

-----------------------------------------------------------------------------
(* Properties *)

Started  == pc # "start"
Terminal == pc \in {"returned", "exhausted", "raised"}
Attempts == BagCardinality(outcomes)
AllNoMatch == CopiesIn("NoMatch", outcomes) = Attempts

\* t is s without its leading and trailing whitespace
IsTrimOf(t, s) ==
    \E i \in 1..(Len(s) + 1) : \E j \in 0..Len(s) :
        /\ t = SubSeq(s, i, j)
        /\ \A n \in 1..Len(s) : (n < i \/ n > j) => s[n] \in Whitespace
        /\ t # <<>> => (t[1] \notin Whitespace /\ t[Len(t)] \notin Whitespace)

IsBlank(s) == \A n \in 1..Len(s) : s[n] \in Whitespace

\* C1: when the budget is exhausted the function returns a bytes value (a
\* failure message); it never returns None and raises nothing.
C1_ExhaustedReturnsBytes ==
    pc = "exhausted" => (result.type = "bytes" /\ raised = "")

\* C2: a non-empty tag list whose entries are all blank is rejected with a
\* validation error before any search request is issued.
C2_BlankTagsRejected ==
    (Started /\ tags # <<>> /\ \A i \in 1..Len(tags) : IsBlank(tags[i]))
        => (pc = "raised" /\ raised = "ValueError" /\ requests = <<>>)

\* C3: a tag list longer than MAX_TAGS (blanks counted) and the empty list
\* raise a validation error with no search request and no retrieval issued.
C3_BadCountRejected ==
    (Started /\ (tags = <<>> \/ Len(tags) > MAX_TAGS))
        => (pc = "raised" /\ raised = "ValueError"
            /\ requests = <<>> /\ downloads = <<>>)

C3_Witness ==
    /\ pc = "raised"
    /\ Len(tags) > MAX_TAGS
    /\ \E i \in 1..Len(tags) : IsBlank(tags[i])

\* C4: for 1..MAX_TAGS tags, none blank, the tags of the first search
\* request are the caller's tags, each trimmed, same order, same length.
C4_FirstAttemptTrimmed ==
    (Started /\ Len(tags) \in 1..MAX_TAGS
             /\ \A i \in 1..Len(tags) : ~IsBlank(tags[i]))
        => /\ requests # <<>>
           /\ Len(requests[1]) = Len(tags)
           /\ \A i \in 1..Len(tags) : IsTrimOf(requests[1][i], tags[i])

C4_Witness ==
    /\ pc = "query" /\ attempt = 0
    /\ Len(tags) = MAX_TAGS
    /\ \A i \in 1..Len(tags) : ~IsBlank(tags[i])
    /\ tags[1] # tags[MAX_TAGS]
    /\ \E i \in 1..Len(tags) : requests[1][i] # tags[i]

\* what C5 says of the result r of relaxing t at attempt index k
RelaxedAsClaimed(r, t, k) ==
    /\ k = 0 => r = t
    /\ (Len(t) > 1 /\ k >= 1) =>
          /\ Len(r) = Max(1, Len(t) - k)
          /\ \A i \in 1..Len(r) : r[i] = t[i]
    /\ Len(t) = 1 => r = t

Abc == << <<"a">>, <<"b">>, <<"c">> >>

\* C5: adjust_tags(t, 0) = t; for len(t) > 1 and k >= 1 it is the leading
\* max(1, len(t) - k) elements of t; for len(t) = 1 it is t; and
\* relax([a,b,c],1) = [a,b], relax([a,b,c],k) = [a] for k >= 2.
C5_Relax ==
    /\ pc \in {"query", "download"}
          => RelaxedAsClaimed(current_tags, clean_tags, attempt)
    /\ \A k \in 0..(MAX_RETRIES + 2) :
          /\ RelaxedAsClaimed(adjust_tags(clean_tags, k), clean_tags, k)
          /\ RelaxedAsClaimed(adjust_tags(Abc, k), Abc, k)
    /\ adjust_tags(Abc, 1) = << <<"a">>, <<"b">> >>
    /\ \A k \in 2..(MAX_RETRIES + 2) : adjust_tags(Abc, k) = << <<"a">> >>

C5_Witness ==
    /\ pc = "query"
    /\ Len(clean_tags) = MAX_TAGS
    /\ attempt = MAX_TAGS
    /\ current_tags = <<clean_tags[1]>>

\* C6: when every attempt ends in NoMatch, exactly MAX_RETRIES + 1 search
\* requests are issued, no retrieval is issued, and the run then ends Exhausted.
C6_AllNoMatch ==
    (Started /\ pc # "raised" /\ AllNoMatch) =>
        IF Attempts = MAX_RETRIES + 1
        THEN pc = "exhausted" /\ Len(requests) = MAX_RETRIES + 1 /\ downloads = <<>>
        ELSE /\ Attempts <= MAX_RETRIES
             /\ pc \in {"query", "download"}
             /\ Len(requests) = Attempts + 1

C6_Witness ==
    /\ pc = "exhausted"
    /\ MAX_RETRIES >= 2
    /\ CopiesIn("NoMatch", outcomes) = MAX_RETRIES + 1
    /\ Len(requests) = MAX_RETRIES + 1

\* the valid payload carried by the last answer of the network
AnsweredPayload ==
    IF response.body = "item" THEN Bytes(response.original, Len(response.original))
    ELSE response.content

\* C7: once an attempt yields a valid payload the run ends Succeeded with
\* exactly that payload, no request or retrieval follows, and a success on
\* attempt 0 means exactly one attempt.
C7_FirstSuccessEnds ==
    /\ CopiesIn("Success", outcomes) > 0 <=> pc = "returned"
    /\ pc = "returned" =>
          /\ result = AnsweredPayload
          /\ last_outcome = "Success"
          /\ CopiesIn("Success", outcomes) = 1
          /\ Len(requests) = Attempts
          /\ Len(requests) = attempt + 1
          /\ Len(downloads) <= Len(requests)
          /\ ~ENABLED Next

C7_Witness ==
    /\ pc = "returned"
    /\ attempt > 0
    /\ response.content.len > MIN_IMAGE_SIZE
    /\ result = response.content

\* the loop goes on to the next attempt, or ends when the budget is spent
AdvanceOrExhaust ==
    IF attempt < MAX_RETRIES
    THEN /\ attempt' = attempt + 1
         /\ pc' = "query"
         /\ Len(requests') = Len(requests) + 1
         /\ downloads' = downloads
    ELSE /\ pc' = "exhausted"
         /\ requests' = requests
         /\ downloads' = downloads

\* C8: a retrieved content that is empty or shorter than 1024 bytes is
\* classified InvalidPayload, is not returned, and starts exactly one further
\* attempt when attempt < MAX_RETRIES (else the run ends Exhausted).
C8_InvalidPayloadRetries ==
    [][ (/\ pc = "download"
         /\ response'.transport = "ok" /\ response'.status = 200
         /\ response'.content.len < 1024)
        => (/\ last_outcome' = "InvalidPayload"
            /\ result' # response'.content
            /\ result'.type # "bytes"
            /\ AdvanceOrExhaust) ]_vars

C8_Witness ==
    /\ pc = "query"
    /\ last_outcome = "InvalidPayload"
    /\ response.content.len = MIN_IMAGE_SIZE - 1
    /\ Len(requests) = Attempts + 1

\* the answer is a network failure, a timeout or a non-success status
TransientFailure(resp) ==
    \/ resp.transport \in {"ConnectError", "ReadTimeout"}
    \/ resp.transport = "ok" /\ resp.status \notin 200..299

\* C9: a network failure, timeout or non-success status of the query or of
\* the retrieval is recorded in last_error and does not end the call: the
\* next attempt starts when attempt < MAX_RETRIES.
C9_TransientErrorRetries ==
    [][ (pc \in {"query", "download"} /\ TransientFailure(response'))
        => (/\ last_error' = (IF response'.transport = "ok"
                               THEN "http_error" ELSE "request_failed")
            /\ raised' = ""
            /\ result'.type # "bytes"
            /\ AdvanceOrExhaust) ]_vars

C9_Witness ==
    /\ pc = "returned"
    /\ last_error = "request_failed"
    /\ attempt > 0
    /\ result.type = "bytes"

C11_NoFaultEscapes ==
    /\ raised # "" =>
          /\ raised = "ValueError" /\ pc = "raised"
          /\ requests = <<>> /\ Attempts = 0
          /\ (tags = <<>> \/ Len(tags) > MAX_TAGS)
    /\ requests # <<>> =>
          /\ raised = ""
          /\ pc \in {"query", "download", "returned", "exhausted"}
          /\ pc \in {"query", "download"} => ENABLED Next

C11_Witness ==
    /\ pc \in {"returned", "exhausted"}
    /\ last_error = "unknown_error"
    /\ response.body = "not_json"
    /\ raised = ""


\* the answer is a non-empty result whose item lacks the locator field
DataShapeError(resp) ==
    resp.transport = "ok" /\ resp.status = 200 /\ resp.body = "item_without_urls"

ParseErrorLog == [level |-> "error", event |-> "parse_error"]

\* C12 as stated: a data-shape error is recorded with a descriptive detail
\* and no search request issued after it carries other tags than the request
\* that produced it.
C12_NotRetriedWithOtherTags ==
    [][ (/\ pc \in {"query", "download"}
         /\ pc' = "query"
         /\ \/ pc = "query" /\ DataShapeError(response')
            \/ BagIn(ParseErrorLog, logs))
        => current_tags' = current_tags ]_vars

\* C12 amended: a data-shape error is recorded in last_error and logged as a
\* parse error, raises nothing, and uses one budget slot like any transient
\* error: the next attempt, if any, queries relax(normalized tags, i + 1).
C12_DataShapeErrorRetried ==
    [][ (pc = "query" /\ DataShapeError(response'))
        => (/\ last_error' = "parse_error"
            /\ logs' = logs (+) SetToBag({ParseErrorLog})
            /\ raised' = ""
            /\ result'.type # "bytes"
            /\ AdvanceOrExhaust
            /\ pc' = "query" =>
                  /\ current_tags' = adjust_tags(clean_tags, attempt + 1)
                  /\ requests'[Len(requests')] = current_tags') ]_vars

C12_Witness ==
    /\ pc = "query"
    /\ DataShapeError(response)
    /\ last_error = "parse_error"
    /\ Len(requests) >= 2
    /\ requests[Len(requests)] # requests[Len(requests) - 1]


\* C13: every payload returned as a success is at least 1024 bytes long,
\* whatever locator the search returned (network address or inline token).
C13_ReturnedPayloadLargeEnough ==
    pc = "returned" => (result.type = "bytes" /\ result.len >= 1024)


\* the string u begins with "http"
IsNetworkAddress(u) ==
    Len(u) >= 4 /\ u[1] = "h" /\ u[2] = "t" /\ u[3] = "t" /\ u[4] = "p"

\* C14: for a non-empty locator that does not start with "http" no retrieval
\* is issued and the locator, encoded as bytes, is the attempt's successful
\* payload.
C14_InlineLocatorReturned ==
    /\ \A i \in 1..Len(downloads) : IsNetworkAddress(downloads[i])
    /\ pc = "download" =>
          /\ IsNetworkAddress(image_url.id)
          /\ downloads[Len(downloads)] = image_url.id
    /\ (pc \notin {"start", "raised", "query"} /\ response.body = "item"
           /\ response.original # <<>> /\ ~IsNetworkAddress(response.original)) =>
          /\ pc = "returned"
          /\ result = Bytes(response.original, Len(response.original))
          /\ last_outcome = "Success"
          /\ Len(downloads) <= attempt

C14_Witness ==
    /\ pc = "returned"
    /\ response.original = InlineToken
    /\ result = Bytes(InlineToken, 4)
    /\ downloads = <<>>


NonSuccessOutcomes == Attempts - CopiesIn("Success", outcomes)

\* the budget accounting of C15 in one state
BudgetAccounting ==
    /\ Len(requests) <= MAX_RETRIES + 1
    /\ Len(downloads) <= Len(requests)
    /\ Len(downloads) <= Attempts + (IF pc = "download" THEN 1 ELSE 0)
    /\ requests # <<>> => attempt = NonSuccessOutcomes \/ pc = "exhausted"
    /\ pc \in {"query", "download"} =>
          /\ Len(requests) = attempt + 1
          /\ CopiesIn("Success", outcomes) = 0
    /\ pc = "download" =>
          /\ response.body = "item" /\ response.original # <<>>
          /\ downloads[Len(downloads)] = response.original
    /\ pc = "exhausted" =>
          /\ NonSuccessOutcomes = MAX_RETRIES + 1
          /\ attempt = MAX_RETRIES
          /\ Len(requests) = MAX_RETRIES + 1
    /\ pc = "returned" => Len(requests) = NonSuccessOutcomes + 1

\* an upper bound of the number of steps the call can still take
StepsLeft ==
    IF Terminal THEN 0
    ELSE IF pc = "start" THEN 2 * (MAX_RETRIES + 1) + 1
    ELSE 2 * (MAX_RETRIES - attempt) + (IF pc = "query" THEN 2 ELSE 1)

\* C15: every non-success outcome uses exactly one budget slot; at most
\* MAX_RETRIES + 1 search requests and at most one retrieval per request are
\* issued, a retrieval only after the attempt's query returned a locator;
\* and the call always ends (Succeeded or Exhausted, or rejected) when each
\* network call returns or fails: a call that has not ended can take a step,
\* and every step lowers the bounded number of steps left.
C15_BudgetAndTermination ==
    /\ []BudgetAccounting
    /\ [](Terminal \/ ENABLED Next)
    /\ [][StepsLeft' < StepsLeft /\ StepsLeft' >= 0]_vars

C15_Witness ==
    /\ pc = "exhausted"
    /\ MAX_RETRIES = 3
    /\ CopiesIn("NoMatch", outcomes) = 1
    /\ CopiesIn("InvalidPayload", outcomes) = 1
    /\ CopiesIn("Fault", outcomes) = 2
    /\ Len(downloads) >= 2


\* C16: every search request, for every input that passes validation, carries
\* a non-empty tag list without blank entries that is a leading part of the
\* normalized tags.
C16_RequestTagsUsable ==
    \A i \in 1..Len(requests) :
        /\ requests[i] # <<>>
        /\ \A n \in 1..Len(requests[i]) : ~IsBlank(requests[i][n])
        /\ Len(requests[i]) <= Len(clean_tags)
        /\ \A n \in 1..Len(requests[i]) : requests[i][n] = clean_tags[n]


\* C17: every attempt that ends without success has emitted a log entry by
\* the time the next search request is issued or the call ends, an
\* unexpected fault included.
C17_EveryFailureLogged ==
    /\ BagCardinality(logs) = NonSuccessOutcomes
    /\ last_error = "unknown_error" =>
          BagIn([level |-> "error", event |-> "unknown_error"], logs)


\* the error an answer makes the attempt raise, "" when it raises none
FaultOf(resp) ==
    IF resp.transport # "ok" THEN "request_failed"
    ELSE IF resp.status \notin 200..299 THEN "http_error"
    ELSE IF resp.body = "item_without_urls" THEN "parse_error"
    ELSE IF resp.body = "not_json" THEN "unknown_error"
    ELSE ""

\* C19: last_error starts empty and only an attempt that raised a fault
\* changes it; NoMatch and InvalidPayload leave it as it is, so at exhaustion
\* it describes the most recent fault, and is "" when no attempt raised one.
C19_LastErrorFrame ==
    /\ [](pc = "start" => last_error = "")
    /\ [](CopiesIn("Fault", outcomes) = 0 <=> last_error = "")
    /\ [][ /\ pc = "start" => last_error' = ""
           /\ pc \in {"query", "download"} =>
                 last_error' = (IF FaultOf(response') # "" THEN FaultOf(response')
                                ELSE last_error) ]_vars

C19_Witness ==
    /\ pc = "exhausted"
    /\ last_error = "http_error"
    /\ last_outcome = "InvalidPayload"
    /\ CopiesIn("NoMatch", outcomes) >= 1
    /\ CopiesIn("Fault", outcomes) >= 2


\* a call run alone: its position, locals and history after the answers ans
RECURSIVE RunAlone(_, _)
RunAlone(run, ans) ==
    IF ans = <<>> THEN run
    ELSE LET eff == IF run.pc = "query" THEN AfterQuery(run.locals, Head(ans))
                    ELSE AfterDownload(run.locals, Head(ans))
         IN  RunAlone([pc |-> eff.pc, locals |-> eff.locals, result |-> eff.result,
                       raised |-> eff.raised,
                       requests |-> run.requests \o eff.sent,
                       downloads |-> run.downloads \o eff.fetched],
                      Tail(ans))

StartedAlone(ts) ==
    LET eff == Begin(InitialLocals, ts)
    IN  [pc |-> eff.pc, locals |-> eff.locals, result |-> eff.result,
         raised |-> eff.raised, requests |-> eff.sent, downloads |-> eff.fetched]

\* C18: concurrent calls share no mutable state: under every interleaving
\* of two calls at their awaits, the search requests, retrievals and result
\* of each call are those of the same call run alone on the same answers.
C18_CallsDoNotInterfere ==
    \A p \in Invocations :
        calls[p].pc # "start" =>
            LET alone == RunAlone(StartedAlone(calls[p].tags), calls[p].received)
            IN  /\ calls[p].pc = alone.pc
                /\ calls[p].requests = alone.requests
                /\ calls[p].downloads = alone.downloads
                /\ calls[p].result = alone.result
                /\ calls[p].raised = alone.raised
                /\ frames[p] = alone.locals

C18_Witness ==
    /\ calls[1].pc = "returned" /\ calls[2].pc = "exhausted"
    /\ calls[1].tags # calls[2].tags
    /\ Len(calls[1].requests) = 2 /\ Len(calls[2].requests) = 2
    /\ calls[1].requests[2] # calls[1].requests[1]
    /\ calls[2].received[1].transport = "ReadTimeout"
    /\ frames[1].last_error = "" /\ frames[2].last_error = "request_failed"

====
